---------------------------- MODULE Spec2Model ----------------------------
(***************************************************************************)
(* Model of the paragliding site editor frontend: the compass angle        *)
(* arithmetic (utils/compassUtils.ts), the CompassRose drag handling, the  *)
(* LaunchEditor / LocationPicker callbacks and the SiteEditor launch list. *)
(*                                                                         *)
(* Specifications, all over the same variables:                            *)
(*   AngleSpec  the functions of compassUtils.ts on sampled arguments      *)
(*   Spec       SiteEditor with its launch editors, compasses and pickers  *)
(*   ListSpec   the list handlers of SiteEditor on sampled lists           *)
(*   MapSpec    SitesMap re-rendered as the site list changes              *)
(*   ShareSpec  App opening and cancelling the editor, with the identity   *)
(*              of the arrays and objects the edits write to               *)
(*   RaceSpec   one LocationPicker with several elevation requests pending *)
(*   PickerSpec the LocationPickers of two launch editors keyed by index   *)
(*   AppSpec    App loading, filtering, editing and saving sites against   *)
(*              the /api/sites endpoint                                    *)
(*   GraphSpec  the decision rule screen: Header, useDecisionGraph         *)
(*   MarkerSpec the Edit buttons of the markers of SitesMap                *)
(*                                                                         *)
(* Numbers.  Bearings are modelled as integer degrees.  A planar angle is  *)
(* modelled by the integer k that stands for k * (pi/180) radians, so that *)
(* degreesToRadians and radiansToDegrees are computed over the exact       *)
(* reals restricted to whole-degree angles (rounding of IEEE doubles is    *)
(* below this model).                                                      *)
(***************************************************************************)
EXTENDS Integers, Sequences, FiniteSets, TLC

VARIABLES
    \* --- evaluation of the pure functions of compassUtils.ts ---
    fn,          \* name of the function applied last ("none" before any call)
    inA,         \* first argument (startDegrees / degrees / radians)
    inB,         \* second argument (stopDegrees)
    ret,         \* value returned by the call
    \* --- SiteEditor and the components it renders ---
    launches,    \* SiteEditor state `launches` (sequence of launch records)
    isCollapsed, \* LaunchEditor state, one per rendered index (key={idx})
    dragMode,    \* CompassRose state, one per rendered index
    picker,      \* LocationPicker state, one per rendered index
    pending,     \* elevation requests in flight, each with its closure
    lastChange,  \* history: what the last CompassRose pointer handler did
    otherAtDown, \* history: per index, the opposite endpoint at mouse down
    landings,    \* SiteEditor state `landings` (sequence of landing records)
    \* --- App and the map it renders ---
    sites,       \* App: the site list of useSites (SitesMap's `sites` prop)
    selectedSite,\* App state: 0 for null, else the position of the site in sites
    shown,       \* what the last render of SitesMap computed
    refs,        \* which arrays and objects of the editor state are the site's
    \* --- App, its hooks and the backend they talk to ---
    screen,      \* App state `screen`: "main" or "edit"
    filters,     \* App state `filters`: [siteType |-> ...]
    graph,       \* useDecisionGraph state `graph` (a revision number)
    flags,       \* the boolean states of useDecisionGraph, useSites, useUpdateSite
    server,      \* what the backend stores: the site list and the graph
    net,         \* fetch calls in flight, each with the closure of its caller
    zoom,        \* SitesMap state `zoom`
    origin       \* history: where `sites` and the last closing of the editor come from

angleVars  == <<fn, inA, inB, ret>>
editorVars == <<launches, isCollapsed, dragMode, picker, pending, lastChange,
                otherAtDown>>
hookVars   == <<screen, filters, graph, flags, server, net, zoom, origin>>
appVars    == <<landings, sites, selectedSite, shown, refs, hookVars>>
vars       == <<fn, inA, inB, ret, launches, isCollapsed, dragMode, picker,
                pending, lastChange, otherAtDown, landings, sites, selectedSite,
                shown, refs, hookVars>>

---------------------------------------------------------------------------
(* Bounds and program constants *)

\* 360 in `(stopDegrees - startDegrees + 360) % 360`
FullTurn == 360

\* 180 in `diff > 180`
HalfTurn == 180

\* 90 in `(degrees - 90) * (Math.PI / 180)`
QuarterTurn == 90

\* how many whole turns outside [0, 360) the sampled arguments reach
MaxTurns == 2

\* the bearings of the data model: whole degrees in [0, 360)
Bearings == 0 .. (FullTurn - 1)

\* arguments outside [0, 360): around every whole turn up to MaxTurns
TurnOffsets == {0, 1, 89, 90, 179, 180, 181, 270, 359}

OutOfRange ==
    { t * FullTurn + r : t \in (-MaxTurns) .. MaxTurns, r \in TurnOffsets } \ Bearings

Inputs == Bearings \cup OutOfRange

---------------------------------------------------------------------------
(* JavaScript arithmetic *)

\* The JavaScript remainder x % n (n > 0): the result has the sign of x.
JsRem(x, n) == IF x >= 0 THEN x % n ELSE -((-x) % n)

---------------------------------------------------------------------------
(* utils/compassUtils.ts *)

calculateClockwiseDiff_NoWrap(startDegrees, stopDegrees) ==
    JsRem(stopDegrees - startDegrees, FullTurn)

\* the shorter of the two spans instead of the clockwise one
calculateClockwiseDiff_Shortest(startDegrees, stopDegrees) ==
    LET d == JsRem(stopDegrees - startDegrees + FullTurn, FullTurn)
    IN  IF d > HalfTurn THEN FullTurn - d ELSE d

calculateClockwiseDiff(startDegrees, stopDegrees) ==
    JsRem(stopDegrees - startDegrees + FullTurn, FullTurn)

calculateLargeArc_AtLeastHalf(startDegrees, stopDegrees) ==
    LET diff == calculateClockwiseDiff(startDegrees, stopDegrees)
    IN  IF diff >= HalfTurn THEN 1 ELSE 0

calculateLargeArc(startDegrees, stopDegrees) ==
    LET diff == calculateClockwiseDiff(startDegrees, stopDegrees)
    IN  IF diff > HalfTurn THEN 1 ELSE 0

calculateSweepFlag == 1

\* degrees -> planar angle, in units of pi/180 radians
degreesToRadians_NoOffset(degrees) == degrees

degreesToRadians(degrees) == degrees - QuarterTurn

\* planar angle (units of pi/180 radians) -> degrees
radiansToDegrees_WrapAtZero(radians) ==
    LET deg == radians + QuarterTurn
    IN  IF deg <= 0 THEN deg + FullTurn ELSE deg

radiansToDegrees(radians) ==
    LET deg == radians + QuarterTurn
    IN  IF deg < 0 THEN deg + FullTurn ELSE deg

\* components/CompassRose.tsx: the local copy of radiansToDegrees
radToDeg(rad) ==
    LET deg == rad + QuarterTurn
    IN  IF deg < 0 THEN deg + FullTurn ELSE deg

---------------------------------------------------------------------------
(* Values of the editor *)

\* dragMode === null
NoDrag == "null"

\* the last handler was not a pointer handler of a CompassRose in drag mode
NoChange ==
    [op |-> "none", idx |-> 0, mode |-> NoDrag, bearing |-> 0,
     called |-> FALSE, start |-> 0, stop |-> 0]

\* no map is rendered and no site list is held
NothingShown == [launchesWithOverlap |-> << >>, landingsWithOverlap |-> << >>]

\* Identity of an array or object held by the editor: site = 0 for one that
\* the editor created, site = k for the k-th object of its kind reachable
\* from the ApiSite held by App (its launches array, its k-th launch, ...).
Fresh == [site |-> 0]

SiteObject(k) == [site |-> k]

IsShared(tag) == tag.site > 0

\* the editor holds no array and no object
NoRefs ==
    [arr  |-> [launches |-> Fresh, landings |-> Fresh],
     elem |-> [launches |-> << >>, landings |-> << >>]]

\* every flag of the hooks is false
NoFlags ==
    [loading |-> FALSE, saving |-> FALSE, sitesLoading |-> FALSE,
     refreshing |-> FALSE, siteSaving |-> FALSE]

\* useState<Filters>({ siteType: "" })
NoFilter == [siteType |-> ""]

\* a backend that stores nothing
NoServer == [sites |-> << >>, rev |-> 0, graph |-> 0]

\* no site list was fetched and no save has closed the editor
NoOrigin == [sites |-> 0, put |-> 0]

\* useState(6) of SitesMap
InitialZoom == 6

\* App and its hooks are outside the component under study
HooksUnused ==
    /\ zoom = InitialZoom
    /\ screen = "main"
    /\ filters = NoFilter
    /\ graph = 0
    /\ flags = NoFlags
    /\ server = NoServer
    /\ net = {}
    /\ origin = NoOrigin

\* the part of the state outside the component under study
AppUnused ==
    /\ landings = << >>
    /\ sites = << >>
    /\ selectedSite = 0
    /\ shown = NothingShown
    /\ refs = NoRefs
    /\ HooksUnused

---------------------------------------------------------------------------
(* Evaluation of the pure functions on sampled arguments *)

AngleInit ==
    /\ fn = "none"
    /\ inA \in Inputs
    /\ inB \in Inputs
    /\ ret = 0
    /\ launches = << >>
    /\ isCollapsed = << >>
    /\ dragMode = << >>
    /\ picker = << >>
    /\ pending = {}
    /\ lastChange = NoChange
    /\ otherAtDown = << >>
    /\ AppUnused

CallClockwiseDiff ==
    /\ fn = "none"
    /\ fn' = "calculateClockwiseDiff"
    /\ ret' = calculateClockwiseDiff(inA, inB)
    /\ UNCHANGED <<inA, inB, editorVars, appVars>>

CallLargeArc ==
    /\ fn = "none"
    /\ fn' = "calculateLargeArc"
    /\ ret' = calculateLargeArc(inA, inB)
    /\ UNCHANGED <<inA, inB, editorVars, appVars>>

CallDegreesToRadians ==
    /\ fn = "none"
    /\ fn' = "degreesToRadians"
    /\ ret' = degreesToRadians(inA)
    /\ UNCHANGED <<inA, inB, editorVars, appVars>>

CallRadiansToDegrees ==
    /\ fn = "none"
    /\ fn' = "radiansToDegrees"
    /\ ret' = radiansToDegrees(inA)
    /\ UNCHANGED <<inA, inB, editorVars, appVars>>

\* radiansToDegrees(degreesToRadians(d))
CallRoundTrip ==
    /\ fn = "none"
    /\ fn' = "roundTrip"
    /\ ret' = radiansToDegrees(degreesToRadians(inA))
    /\ UNCHANGED <<inA, inB, editorVars, appVars>>

AngleNext ==
    \/ CallClockwiseDiff
    \/ CallLargeArc
    \/ CallDegreesToRadians
    \/ CallRadiansToDegrees
    \/ CallRoundTrip

AngleSpec == AngleInit /\ [][AngleNext]_vars

---------------------------------------------------------------------------
(* Angle arithmetic: the claims *)

\* The specification's definition of the clockwise span, with the
\* mathematical modulus: ((b - a) mod 360 + 360) mod 360.
ReferenceSpan(a, b) == (((b - a) % FullTurn) + FullTurn) % FullTurn

\* C1: for all bearings a, b in [0, 360), calculateClockwiseDiff(a, b) lies in
\* [0, 360): it is never negative and never 360 or more.
C1_DiffInRange ==
    (fn = "calculateClockwiseDiff" /\ inA \in Bearings /\ inB \in Bearings)
        => (ret >= 0 /\ ret < FullTurn)

\* the wrap-around case of the tests: 359 -> 1 is a span of 2
C1_Witness ==
    fn = "calculateClockwiseDiff" /\ inA = 359 /\ inB = 1 /\ ret = 2

\* C2 (as claimed): for every pair of numeric arguments, also outside
\* [0, 360), calculateClockwiseDiff(a, b) equals ((b - a) mod 360 + 360) mod 360
\* and so lies in [0, 360).
C2_DiffEqualsReference ==
    fn = "calculateClockwiseDiff"
        => (ret = ReferenceSpan(inA, inB) /\ ret >= 0 /\ ret < FullTurn)

\* C3: for bearings a, b in [0, 360): the two clockwise spans add up to 360
\* when a # b, and both are 0 when a = b.
C3_SpansSumToFullTurn ==
    (fn = "calculateClockwiseDiff" /\ inA \in Bearings /\ inB \in Bearings)
        => IF inA # inB
           THEN ret + calculateClockwiseDiff(inB, inA) = FullTurn
           ELSE ret = 0 /\ calculateClockwiseDiff(inB, inA) = 0

\* 350 -> 10 is 20 one way and 340 the other
C3_Witness ==
    /\ fn = "calculateClockwiseDiff" /\ inA = 350 /\ inB = 10 /\ ret = 20
    /\ calculateClockwiseDiff(inB, inA) = 340

\* C4: calculateLargeArc(a, b) is 1 exactly when the clockwise span from a to
\* b is strictly greater than 180, and 0 otherwise; a span of exactly 180 and
\* a span of 0 select the minor arc.
C4_LargeArcIffSpanOverHalf ==
    fn = "calculateLargeArc"
        => /\ ret \in {0, 1}
           /\ (ret = 1) <=> (calculateClockwiseDiff(inA, inB) > HalfTurn)
           /\ (inA \in Bearings /\ inB \in Bearings)
                 => ((ret = 1) <=> (ReferenceSpan(inA, inB) > HalfTurn))

\* the span of exactly 180 across north: 270 -> 90 is the minor arc
C4_Witness ==
    fn = "calculateLargeArc" /\ inA = 270 /\ inB = 90 /\ ret = 0

\* C5: for every bearing d in [0, 360), radiansToDegrees(degreesToRadians(d))
\* equals d; no +360 is added on the way back.
C5_RoundTrip ==
    (fn = "roundTrip" /\ inA \in Bearings) => ret = inA

\* north: degreesToRadians(0) is -pi/2, which comes back as 0 and not as 360
C5_Witness ==
    fn = "roundTrip" /\ inA = 0 /\ degreesToRadians(inA) = -QuarterTurn /\ ret = 0

\* C6 (as claimed): for every planar angle, radiansToDegrees and CompassRose's
\* radToDeg return a bearing in [0, 360): never negative, never 360 or more.
C6_RadiansToDegreesNormalized ==
    fn = "radiansToDegrees"
        => /\ ret >= 0 /\ ret < FullTurn
           /\ radToDeg(inA) >= 0 /\ radToDeg(inA) < FullTurn

---------------------------------------------------------------------------
(* The site editor: bounds and inputs *)

\* launches the editor is taken to
MaxLaunches == 1

\* elevation requests in flight at the same time
MaxPending == 1

\* `|| 47.0` and `|| 10.0` in addLaunch
DefaultLat == 47
DefaultLng == 10

\* Pointer offsets from the centre of the compass,
\* <<clientX - rect.left - center, clientY - rect.top - center>>; y grows
\* downwards.  North, east and north-west of the centre.
PointerPositions == { <<0, -1>>, <<1, 0>>, <<-1, -1>> }

\* Coordinates clicked on the map of a LocationPicker, <<lat, lng>>.
ClickCoords == { <<48, 11>>, <<46, 9>> }

\* /api/elevation: the elevation the service answers for a coordinate.
ElevationService(lat, lng) == 100 * (lat - 40) + lng

\* `site.launches` of the ApiSite the editor is opened on.
SampleLaunch ==
    [location |-> [latitude |-> 47, longitude |-> 10, name |-> "Gipfel"],
     direction_degrees_start |-> 315,
     direction_degrees_stop |-> 90,
     elevation |-> 710,
     site_type |-> "Hang"]

SampleSites == { << >>, <<SampleLaunch>> }

\* a launch on the equator, for `launches[0]?.location.latitude || 47.0`
EquatorLaunch ==
    [location |-> [latitude |-> 0, longitude |-> 9, name |-> ""],
     direction_degrees_start |-> 90,
     direction_degrees_stop |-> 270,
     elevation |-> 0,
     site_type |-> "Winch"]

\* `site.landings`: a landing in the valley and one on the prime meridian
SampleLanding ==
    [location |-> [latitude |-> 46, longitude |-> 9, name |-> "Tal"],
     elevation |-> 609]

MeridianLanding ==
    [location |-> [latitude |-> 48, longitude |-> 0, name |-> ""],
     elevation |-> 800]

---------------------------------------------------------------------------
(* components/CompassRose.tsx *)

\* Math.atan2(y, x) in units of pi/180, for the offsets used as pointer
\* positions (x, y in {-1, 0, 1}); the result lies in (-180, 180].
Atan2(y, x) ==
    CASE x = 0  /\ y = 0  -> 0
      [] x = 1  /\ y = 0  -> 0
      [] x = 1  /\ y = 1  -> 45
      [] x = 0  /\ y = 1  -> 90
      [] x = -1 /\ y = 1  -> 135
      [] x = -1 /\ y = 0  -> 180
      [] x = -1 /\ y = -1 -> -135
      [] x = 0  /\ y = -1 -> -90
      [] x = 1  /\ y = -1 -> -45

\* the bearing under the pointer: radToDeg(Math.atan2(y, x))
PointerBearing(p) == radToDeg(Atan2(p[2], p[1]))

\* handleMouseMove that refuses a bearing equal to the opposite endpoint
handleMouseMove_NoZeroWidth(startDegrees, stopDegrees, mode, p) ==
    IF mode = NoDrag THEN << >>
    ELSE LET angle == PointerBearing(p)
         IN  IF mode = "start"
             THEN IF angle = stopDegrees THEN << >> ELSE << <<angle, stopDegrees>> >>
             ELSE IF angle = startDegrees THEN << >> ELSE << <<startDegrees, angle>> >>

\* handleMouseMove without the early return: outside a drag it moves the
\* start
handleMouseMove_NoEarlyReturn(startDegrees, stopDegrees, mode, p) ==
    LET angle == PointerBearing(p)
    IN  IF mode = "stop"
        THEN << <<startDegrees, angle>> >>
        ELSE << <<angle, stopDegrees>> >>

\* handleMouseMove as run by a render whose dragMode is `mode`: the sequence
\* of onChange(start, stop) calls it makes (none, or one).
handleMouseMove(startDegrees, stopDegrees, mode, p) ==
    IF mode = NoDrag THEN << >>
    ELSE LET angle == PointerBearing(p)
         IN  IF mode = "start"
             THEN << <<angle, stopDegrees>> >>
             ELSE << <<startDegrees, angle>> >>

\* the arc drawn with the sweep flag following the shorter way round
arcPath_SweepShortWay(startDegrees, stopDegrees) ==
    [largeArc  |-> calculateLargeArc(startDegrees, stopDegrees),
     sweepFlag |-> IF calculateClockwiseDiff(startDegrees, stopDegrees) > HalfTurn
                   THEN 0 ELSE 1]

\* the flags of the SVG arc `A r r 0 largeArc sweepFlag x y`
arcPath(startDegrees, stopDegrees) ==
    [largeArc  |-> calculateLargeArc(startDegrees, stopDegrees),
     sweepFlag |-> 1]

---------------------------------------------------------------------------
(* components/SiteEditor.tsx, LaunchEditor.tsx, LocationPicker.tsx *)
(* Sequences are 1-based: index k here is the JavaScript index k - 1.      *)

\* an array slot that was never assigned
Hole == [hole |-> TRUE]

\* x || d for numbers: 0 is falsy
JsOr(x, d) == IF x = 0 THEN d ELSE x

\* handleLaunchChange run by a render whose `launches` is ls:
\* `updated = [...launches]; updated[index] = launch`.  An assignment past the
\* end lengthens the array and leaves holes; one at a negative JavaScript
\* index (index < 1 here) sets a property that is no element.
handleLaunchChange(ls, index, launch) ==
    IF index \in 1 .. Len(ls)
    THEN [ls EXCEPT ![index] = launch]
    ELSE IF index < 1 THEN ls
    ELSE [k \in 1 .. index |->
             IF k = index THEN launch
             ELSE IF k <= Len(ls) THEN ls[k] ELSE Hole]

\* handleLandingChange: the same on `landings`
handleLandingChange(ls, index, landing) ==
    IF index \in 1 .. Len(ls)
    THEN [ls EXCEPT ![index] = landing]
    ELSE IF index < 1 THEN ls
    ELSE [k \in 1 .. index |->
             IF k = index THEN landing
             ELSE IF k <= Len(ls) THEN ls[k] ELSE Hole]

\* handleLaunchRemove that drops every launch equal to the one at `index`
handleLaunchRemove_ByValue(ls, index) ==
    LET kept[k \in 0 .. Len(ls)] ==
            IF k = 0 THEN << >>
            ELSE IF index \in 1 .. Len(ls) /\ ls[k] = ls[index] THEN kept[k - 1]
            ELSE Append(kept[k - 1], ls[k])
    IN  kept[Len(ls)]

\* handleLaunchRemove that drops the launch before the one at `index`
handleLaunchRemove_OffByOne(ls, index) ==
    LET kept[k \in 0 .. Len(ls)] ==
            IF k = 0 THEN << >>
            ELSE IF k # index - 1 THEN Append(kept[k - 1], ls[k])
            ELSE kept[k - 1]
    IN  kept[Len(ls)]

\* handleLaunchRemove: launches.filter((_, i) => i !== index)
handleLaunchRemove(ls, index) ==
    LET kept[k \in 0 .. Len(ls)] ==
            IF k = 0 THEN << >>
            ELSE IF k # index THEN Append(kept[k - 1], ls[k])
            ELSE kept[k - 1]
    IN  kept[Len(ls)]

\* handleLandingRemove: landings.filter((_, i) => i !== index)
handleLandingRemove(ls, index) ==
    LET kept[k \in 0 .. Len(ls)] ==
            IF k = 0 THEN << >>
            ELSE IF k # index THEN Append(kept[k - 1], ls[k])
            ELSE kept[k - 1]
    IN  kept[Len(ls)]

\* LaunchEditor.handleDirectionChange of the editor at `index`
handleDirectionChange(ls, index, start, stop) ==
    handleLaunchChange(ls, index,
        [ls[index] EXCEPT !.direction_degrees_start = start,
                          !.direction_degrees_stop = stop])

\* LaunchEditor.handleLocationChange of the editor at `index`
handleLocationChange(ls, index, location, elevation) ==
    handleLaunchChange(ls, index,
        [ls[index] EXCEPT !.location = location, !.elevation = elevation])

\* addLaunch that puts the new launch in front
addLaunch_Prepend(ls) ==
    LET defaultLat == IF Len(ls) = 0 THEN DefaultLat
                      ELSE JsOr(ls[1].location.latitude, DefaultLat)
        defaultLng == IF Len(ls) = 0 THEN DefaultLng
                      ELSE JsOr(ls[1].location.longitude, DefaultLng)
    IN  << [location |-> [latitude |-> defaultLat, longitude |-> defaultLng,
                         name |-> ""],
            direction_degrees_start |-> 0,
            direction_degrees_stop |-> 360,
            elevation |-> 0,
            site_type |-> "Hang"] >> \o ls

\* LaunchEditor.handleChange for the fields its inputs pass ("name" and
\* "site_type"): the launch handed to onChange
handleChange(launch, field, value) ==
    IF field = "site_type" THEN [launch EXCEPT !.site_type = value]
    ELSE IF field = "name" THEN [launch EXCEPT !.location.name = value]
    ELSE launch

\* LandingEditor.handleLocationChange of the editor at `index`
handleLandingLocationChange(ls, index, location, elevation) ==
    handleLandingChange(ls, index,
        [ls[index] EXCEPT !.location = location, !.elevation = elevation])

\* SiteEditor.addLaunch run by a render whose `launches` is ls
addLaunch(ls) ==
    LET defaultLat == IF Len(ls) = 0 THEN DefaultLat
                      ELSE JsOr(ls[1].location.latitude, DefaultLat)
        defaultLng == IF Len(ls) = 0 THEN DefaultLng
                      ELSE JsOr(ls[1].location.longitude, DefaultLng)
    IN  Append(ls,
            [location |-> [latitude |-> defaultLat, longitude |-> defaultLng,
                          name |-> ""],
             direction_degrees_start |-> 0,
             direction_degrees_stop |-> 360,
             elevation |-> 0,
             site_type |-> "Hang"])

\* SiteEditor.addLanding run by a render whose `landings` is ls
addLanding(ls) ==
    LET defaultLat == IF Len(ls) = 0 THEN DefaultLat
                      ELSE JsOr(ls[1].location.latitude, DefaultLat)
        defaultLng == IF Len(ls) = 0 THEN DefaultLng
                      ELSE JsOr(ls[1].location.longitude, DefaultLng)
    IN  Append(ls,
            [location |-> [latitude |-> defaultLat, longitude |-> defaultLng,
                          name |-> ""],
             elevation |-> 0])

\* state of a LocationPicker that is not mounted
Unmounted ==
    [pickLat |-> 0, pickLng |-> 0, pickElev |-> 0, loadingElevation |-> FALSE]

\* useState initial values of a LocationPicker mounted for `launch`
MountPicker(launch) ==
    [pickLat |-> launch.location.latitude,
     pickLng |-> launch.location.longitude,
     pickElev |-> launch.elevation,
     loadingElevation |-> FALSE]

\* Component state after a render of n launches: editors are keyed by index,
\* so the first Len(seq) keep their state and new ones start from `fresh`.
Rerender(seq, n, fresh) ==
    [k \in 1 .. n |-> IF k <= Len(seq) THEN seq[k] ELSE fresh]

\* the pointer is not inside any compass that is in drag mode (leaving a
\* compass fires onMouseLeave, which resets its dragMode)
AllIdle == \A j \in 1 .. Len(dragMode) : dragMode[j] = NoDrag

\* the opposite endpoint of the one `mode` manipulates
OtherEndpoint(launch, mode) ==
    IF mode = "start" THEN launch.direction_degrees_stop
    ELSE launch.direction_degrees_start

EditorInit ==
    /\ fn = "none" /\ inA = 0 /\ inB = 0 /\ ret = 0
    /\ launches \in SampleSites
    /\ isCollapsed = [k \in 1 .. Len(launches) |-> TRUE]
    /\ dragMode = [k \in 1 .. Len(launches) |-> NoDrag]
    /\ picker = [k \in 1 .. Len(launches) |-> Unmounted]
    /\ pending = {}
    /\ lastChange = NoChange
    /\ otherAtDown = [k \in 1 .. Len(launches) |-> 0]
    /\ AppUnused

\* SiteEditor "+ Add" button
AddLaunch ==
    /\ Len(launches) < MaxLaunches
    /\ AllIdle
    /\ launches' = addLaunch(launches)
    /\ isCollapsed' = Rerender(isCollapsed, Len(launches) + 1, TRUE)
    /\ dragMode' = Rerender(dragMode, Len(launches) + 1, NoDrag)
    /\ picker' = Rerender(picker, Len(launches) + 1, Unmounted)
    /\ otherAtDown' = Rerender(otherAtDown, Len(launches) + 1, 0)
    /\ pending' = { [q EXCEPT !.stale = TRUE] : q \in pending }
    /\ lastChange' = NoChange
    /\ UNCHANGED <<angleVars, appVars>>

\* LaunchEditor "Remove" button (the click does not reach the header):
\* onRemove(index).  The editors are keyed by index, so those of the first
\* n - 1 positions stay mounted with their state and the last one unmounts.
RemoveLaunch(i) ==
    /\ i \in 1 .. Len(launches)
    /\ AllIdle
    /\ launches' = handleLaunchRemove(launches, i)
    /\ isCollapsed' = Rerender(isCollapsed, Len(launches'), TRUE)
    /\ dragMode' = Rerender(dragMode, Len(launches'), NoDrag)
    /\ picker' = Rerender(picker, Len(launches'), Unmounted)
    /\ otherAtDown' = Rerender(otherAtDown, Len(launches'), 0)
    /\ pending' = { [q EXCEPT !.stale = TRUE,
                              !.alive = q.alive /\ q.idx <= Len(launches')] :
                       q \in pending }
    /\ lastChange' = NoChange
    /\ UNCHANGED <<angleVars, appVars>>

\* LaunchEditor header click: setIsCollapsed(!isCollapsed).  Expanding mounts
\* the CompassRose and the LocationPicker, collapsing unmounts them.
ToggleCollapsed(i) ==
    /\ i \in 1 .. Len(launches)
    /\ AllIdle
    /\ isCollapsed' = [isCollapsed EXCEPT ![i] = ~isCollapsed[i]]
    /\ dragMode' = [dragMode EXCEPT ![i] = NoDrag]
    /\ picker' = [picker EXCEPT ![i] =
                     IF isCollapsed[i] THEN MountPicker(launches[i]) ELSE Unmounted]
    /\ pending' = { IF r.idx = i THEN [r EXCEPT !.alive = FALSE] ELSE r : r \in pending }
    /\ otherAtDown' = [otherAtDown EXCEPT ![i] = 0]
    /\ lastChange' = NoChange
    /\ UNCHANGED <<launches, angleVars, appVars>>

\* CompassRose handleMouseDown(e, mode) on a start or stop handle:
\* setDragMode(mode), then handleMouseMove(e) of the same render, which still
\* sees the dragMode from before the click (null on the first press, so no
\* onChange; the old mode when a second button is pressed during a drag).
\* In that inner call e.currentTarget is the handle, so the offset p it
\* computes is any of the pointer offsets.
MouseDown(i, mode, p) ==
    /\ i \in 1 .. Len(launches)
    /\ ~isCollapsed[i]
    /\ \A j \in 1 .. Len(dragMode) : j # i => dragMode[j] = NoDrag
    /\ LET l     == launches[i]
           calls == handleMouseMove(l.direction_degrees_start,
                                    l.direction_degrees_stop, dragMode[i], p)
       IN  /\ launches' = IF calls = << >> THEN launches
                          ELSE handleDirectionChange(launches, i,
                                                     calls[1][1], calls[1][2])
           /\ lastChange' =
                 IF dragMode[i] = NoDrag THEN NoChange
                 ELSE [op |-> "mousedown", idx |-> i, mode |-> dragMode[i],
                       bearing |-> PointerBearing(p),
                       called |-> calls # << >>,
                       start |-> IF calls = << >> THEN 0 ELSE calls[1][1],
                       stop |-> IF calls = << >> THEN 0 ELSE calls[1][2]]
    /\ dragMode' = [dragMode EXCEPT ![i] = mode]
    /\ otherAtDown' = [otherAtDown EXCEPT ![i] = OtherEndpoint(launches'[i], mode)]
    /\ UNCHANGED <<isCollapsed, picker, pending, angleVars, appVars>>

\* CompassRose svg onMouseMove, the pointer being over the compass of launch
\* i: handleMouseMove, which returns early unless dragging
MouseMove(i, p) ==
    /\ i \in 1 .. Len(launches)
    /\ ~isCollapsed[i]
    /\ \A j \in 1 .. Len(dragMode) : j # i => dragMode[j] = NoDrag
    /\ LET l     == launches[i]
           calls == handleMouseMove(l.direction_degrees_start,
                                    l.direction_degrees_stop, dragMode[i], p)
       IN  /\ launches' = IF calls = << >> THEN launches
                          ELSE handleDirectionChange(launches, i,
                                                     calls[1][1], calls[1][2])
           /\ lastChange' =
                 IF dragMode[i] = NoDrag THEN NoChange ELSE
                 [op |-> "mousemove", idx |-> i, mode |-> dragMode[i],
                  bearing |-> PointerBearing(p),
                  called |-> calls # << >>,
                  start |-> IF calls = << >> THEN 0 ELSE calls[1][1],
                  stop |-> IF calls = << >> THEN 0 ELSE calls[1][2]]
    /\ UNCHANGED <<isCollapsed, dragMode, picker, pending, otherAtDown, angleVars, appVars>>

\* CompassRose svg onMouseUp / onMouseLeave: setDragMode(null)
MouseUp(i) ==
    /\ i \in 1 .. Len(launches)
    /\ ~isCollapsed[i]
    /\ \A j \in 1 .. Len(dragMode) : j # i => dragMode[j] = NoDrag
    /\ dragMode' = [dragMode EXCEPT ![i] = NoDrag]
    /\ lastChange' = NoChange
    /\ otherAtDown' = [otherAtDown EXCEPT ![i] = 0]
    /\ UNCHANGED <<launches, isCollapsed, picker, pending, angleVars, appVars>>

\* LocationPicker handleMapClick / handleMarkerDrag: setPickLat, setPickLng,
\* then fetchElevation up to its first await.  The request keeps the closure
\* of the render that issued it: index, location and launch through
\* handleLocationChange, and launches through handleLaunchChange.  `stale`
\* is history: a launch was added or removed since the request was issued.
\* `limit` bounds the requests in flight.
MapClickWithin(i, c, limit) ==
    /\ i \in 1 .. Len(launches)
    /\ ~isCollapsed[i]
    /\ AllIdle
    /\ Cardinality(pending) < limit
    /\ picker' = [picker EXCEPT ![i].pickLat = c[1], ![i].pickLng = c[2],
                                ![i].loadingElevation = TRUE]
    /\ pending' = pending \cup
                     { [idx |-> i, lat |-> c[1], lng |-> c[2],
                        launches |-> launches, alive |-> TRUE,
                        stale |-> FALSE] }
    /\ lastChange' = NoChange
    /\ UNCHANGED <<launches, isCollapsed, dragMode, otherAtDown, angleVars, appVars>>

\* a map click or marker drag while fewer than MaxPending requests are in flight
MapClick(i, c) == MapClickWithin(i, c, MaxPending)

\* fetchElevation after the await, response.ok: setPickElev, onChange with
\* the closure's location, finally setLoadingElevation(false).  The state
\* setters of an unmounted LocationPicker do nothing.
FetchOk(r) ==
    /\ r \in pending
    /\ LET elevation == ElevationService(r.lat, r.lng)
           location  == [r.launches[r.idx].location EXCEPT
                            !.latitude = r.lat, !.longitude = r.lng]
           updated   == handleLocationChange(r.launches, r.idx, location, elevation)
           n         == Len(updated)
           settled   == IF r.alive
                        THEN [picker EXCEPT ![r.idx].pickElev = elevation,
                                            ![r.idx].loadingElevation = FALSE]
                        ELSE picker
       IN  /\ launches' = updated
           /\ picker' = Rerender(settled, n, Unmounted)
           /\ isCollapsed' = Rerender(isCollapsed, n, TRUE)
           /\ dragMode' = Rerender(dragMode, n, NoDrag)
           /\ otherAtDown' = Rerender(otherAtDown, n, 0)
           /\ pending' = { [q EXCEPT !.alive = q.alive /\ q.idx <= n] :
                              q \in pending \ {r} }
    /\ lastChange' = NoChange
    /\ UNCHANGED <<angleVars, appVars>>

\* fetchElevation after the await, response not ok or fetch rejected: only
\* finally setLoadingElevation(false)
FetchFail(r) ==
    /\ r \in pending
    /\ picker' = IF r.alive THEN [picker EXCEPT ![r.idx].loadingElevation = FALSE]
                 ELSE picker
    /\ pending' = pending \ {r}
    /\ lastChange' = NoChange
    /\ UNCHANGED <<launches, isCollapsed, dragMode, otherAtDown, angleVars, appVars>>

Next ==
    \/ AddLaunch
    \/ \E i \in 1 .. MaxLaunches : RemoveLaunch(i)
    \/ \E i \in 1 .. MaxLaunches : ToggleCollapsed(i)
    \/ \E i \in 1 .. MaxLaunches, mode \in {"start", "stop"}, p \in PointerPositions :
          MouseDown(i, mode, p)
    \/ \E i \in 1 .. MaxLaunches, p \in PointerPositions : MouseMove(i, p)
    \/ \E i \in 1 .. MaxLaunches : MouseUp(i)
    \/ \E i \in 1 .. MaxLaunches, c \in ClickCoords : MapClick(i, c)
    \/ \E r \in pending : FetchOk(r)
    \/ \E r \in pending : FetchFail(r)

Spec == EditorInit /\ [][Next]_vars

---------------------------------------------------------------------------
(* The compass in the editor: the claims *)

\* the launch edited by the LaunchEditor at index i
Start(i) == launches[i].direction_degrees_start
Stop(i)  == launches[i].direction_degrees_stop

\* C7: the sweep flag used to render a direction range is always 1: for every
\* start/stop pair the editor reaches, after any sequence of endpoint drags,
\* the arc is drawn clockwise and only the large-arc flag varies.
C7_SweepAlwaysClockwise ==
    /\ calculateSweepFlag = 1
    /\ \A i \in 1 .. Len(launches) :
          ~isCollapsed[i] =>
              /\ arcPath(Start(i), Stop(i)).sweepFlag = 1
              /\ arcPath(Start(i), Stop(i)).largeArc \in {0, 1}

\* a drag has just produced a range of more than 180 degrees: the major arc
\* is drawn, still clockwise
C7_Witness ==
    /\ lastChange.op = "mousemove" /\ lastChange.called
    /\ ~isCollapsed[lastChange.idx]
    /\ arcPath(Start(lastChange.idx), Stop(lastChange.idx)).largeArc = 1
    /\ arcPath(Start(lastChange.idx), Stop(lastChange.idx)).sweepFlag = 1

\* C8 (as claimed): during a drag of the start handle every onChange call
\* carries the stop bearing the launch had when the drag began, so the
\* launch's stop is what it was before the drag; symmetrically for a drag of
\* the stop handle.
C8_OtherEndpointUntouched ==
    (lastChange.op = "mousemove" /\ lastChange.called) =>
        /\ lastChange.mode = "start" =>
              /\ lastChange.stop = otherAtDown[lastChange.idx]
              /\ Stop(lastChange.idx) = otherAtDown[lastChange.idx]
        /\ lastChange.mode = "stop" =>
              /\ lastChange.start = otherAtDown[lastChange.idx]
              /\ Start(lastChange.idx) = otherAtDown[lastChange.idx]

\* C9: no clamping or validation of a dragged endpoint: every pointer event
\* handled in drag mode calls onChange, and the bearing under the pointer is
\* stored as the manipulated endpoint, also when it equals the other endpoint.
C9_PointerBearingStored ==
    lastChange.op # "none" =>
        /\ lastChange.called
        /\ lastChange.mode = "start" =>
              /\ Start(lastChange.idx) = lastChange.bearing
              /\ Stop(lastChange.idx) = lastChange.stop
        /\ lastChange.mode = "stop" =>
              /\ Stop(lastChange.idx) = lastChange.bearing
              /\ Start(lastChange.idx) = lastChange.start

\* a pointer move has just put the dragged start on the stop: the zero-width
\* range is stored
C9_Witness ==
    /\ lastChange.op = "mousemove" /\ lastChange.mode = "start"
    /\ lastChange.bearing = lastChange.stop
    /\ Start(lastChange.idx) = Stop(lastChange.idx)

\* C10 (as claimed): after any sequence of editor operations every launch's
\* direction_degrees_start and direction_degrees_stop are in [0, 360).
C10_DirectionsAreBearings ==
    \A i \in 1 .. Len(launches) :
        /\ Start(i) >= 0 /\ Start(i) < FullTurn
        /\ Stop(i) >= 0 /\ Stop(i) < FullTurn

\* C20 (as claimed): no index is held across an add or remove on the list:
\* every update that reaches handleLaunchChange, the one of a completing
\* elevation fetch included, uses an index taken from the list as it is when
\* the update is applied, so no fetch completes with the index of a request
\* issued before a launch was added or removed.
C20_NoIndexHeldAcrossAddRemove ==
    [][\A r \in pending : FetchOk(r) => ~r.stale]_vars

\* C28: CompassRose reports a change only during an active drag: a pointer
\* handler that runs while dragMode is null (a move over the idle compass, or
\* the press on a handle that starts a drag) calls no onChange and leaves the
\* launches as they are; mouse up and mouse leave reset dragMode to null; and
\* dragMode leaves null only through a mouse down on a start or stop handle.
C28_ChangeOnlyWhileDragging ==
    [][\A i \in 1 .. MaxLaunches :
          /\ (i \in DOMAIN dragMode /\ dragMode[i] = NoDrag) =>
                /\ (\E p \in PointerPositions : MouseMove(i, p)) =>
                       launches' = launches
                /\ (\E mode \in {"start", "stop"}, p \in PointerPositions :
                       MouseDown(i, mode, p)) =>
                       launches' = launches
                /\ (i \in DOMAIN dragMode' /\ dragMode'[i] # NoDrag) =>
                       \E mode \in {"start", "stop"}, p \in PointerPositions :
                           MouseDown(i, mode, p)
          /\ MouseUp(i) => dragMode'[i] = NoDrag]_vars

\* a drag has moved the start of a launch to the bearing east and has ended:
\* the compass is idle, with the pointer still over it
C28_Witness ==
    \E i \in 1 .. Len(launches) :
        /\ ~isCollapsed[i]
        /\ dragMode[i] = NoDrag
        /\ Start(i) = QuarterTurn
        /\ ENABLED (\E p \in PointerPositions : MouseMove(i, p))

\* C21 (as claimed): launches change only through the operator's explicit
\* edits: a removed launch never reappears unless it is added again, and an
\* edit applied after a map click is never undone when that click's pending
\* elevation fetch completes.  So a completing fetch brings no launch back
\* and changes nothing but the coordinate and the elevation of the launch it
\* was issued for, in the list as it is when the response arrives.
C21_FetchUndoesNoEdit ==
    [][\A r \in pending : FetchOk(r) =>
          launches' =
              IF r.idx \in 1 .. Len(launches)
              THEN [launches EXCEPT ![r.idx].location.latitude = r.lat,
                                    ![r.idx].location.longitude = r.lng,
                                    ![r.idx].elevation =
                                        ElevationService(r.lat, r.lng)]
              ELSE launches]_vars

---------------------------------------------------------------------------
(* The launch and landing lists of SiteEditor: the handlers applied to     *)
(* sampled lists and positions                                              *)

\* longest list the handlers are applied to
MaxLen == 2

LaunchValues == {SampleLaunch, EquatorLaunch}

LandingValues == {SampleLanding, MeridianLanding}

\* all sequences over S of length at most n
SeqsUpTo(S, n) == UNION { [1 .. k -> S] : k \in 0 .. n }

\* positions handed to the handlers: JavaScript indices -1 .. MaxLen + 1
ListIndexes == 0 .. (MaxLen + 2)

\* none of the handlers has a throw statement, and neither the array
\* spread, filter nor an indexed assignment throws for a numeric index
NoError == "none"

\* the value a handler leaves in the state of SiteEditor
Outcome(newLaunches, newLandings) ==
    [launches |-> newLaunches, landings |-> newLandings, error |-> NoError]

ListInit ==
    /\ fn = "none" /\ inA = 0 /\ inB = 0 /\ ret = 0
    /\ launches \in SeqsUpTo(LaunchValues, MaxLen)
    /\ landings \in SeqsUpTo(LandingValues, MaxLen)
    /\ isCollapsed = << >>
    /\ dragMode = << >>
    /\ picker = << >>
    /\ pending = {}
    /\ lastChange = NoChange
    /\ otherAtDown = << >>
    /\ sites = << >>
    /\ selectedSite = 0
    /\ shown = NothingShown
    /\ refs = NoRefs
    /\ HooksUnused

listFrame == <<launches, isCollapsed, dragMode, picker, pending, lastChange,
               otherAtDown, landings, sites, selectedSite, shown, refs, hookVars>>

CallAddLaunch ==
    /\ fn = "none"
    /\ fn' = "addLaunch"
    /\ ret' = Outcome(addLaunch(launches), landings)
    /\ UNCHANGED <<inA, inB, listFrame>>

CallAddLanding ==
    /\ fn = "none"
    /\ fn' = "addLanding"
    /\ ret' = Outcome(launches, addLanding(landings))
    /\ UNCHANGED <<inA, inB, listFrame>>

CallLaunchRemove(index) ==
    /\ fn = "none"
    /\ fn' = "handleLaunchRemove"
    /\ inA' = index
    /\ ret' = Outcome(handleLaunchRemove(launches, index), landings)
    /\ UNCHANGED <<inB, listFrame>>

CallLandingRemove(index) ==
    /\ fn = "none"
    /\ fn' = "handleLandingRemove"
    /\ inA' = index
    /\ ret' = Outcome(launches, handleLandingRemove(landings, index))
    /\ UNCHANGED <<inB, listFrame>>

CallLaunchChange(index, launch) ==
    /\ fn = "none"
    /\ fn' = "handleLaunchChange"
    /\ inA' = index
    /\ inB' = launch
    /\ ret' = Outcome(handleLaunchChange(launches, index, launch), landings)
    /\ UNCHANGED listFrame

CallLandingChange(index, landing) ==
    /\ fn = "none"
    /\ fn' = "handleLandingChange"
    /\ inA' = index
    /\ inB' = landing
    /\ ret' = Outcome(launches, handleLandingChange(landings, index, landing))
    /\ UNCHANGED listFrame

\* "+ Add", then Remove on the LaunchEditor rendered for the new launch,
\* whose index prop is its position in the list after the add
CallAddThenRemove ==
    /\ fn = "none"
    /\ fn' = "addLaunch;handleLaunchRemove"
    /\ LET added == addLaunch(launches)
       IN  /\ inA' = Len(added)
           /\ ret' = Outcome(handleLaunchRemove(added, Len(added)), landings)
    /\ UNCHANGED <<inB, listFrame>>

ListNext ==
    \/ CallAddLaunch
    \/ CallAddLanding
    \/ \E index \in ListIndexes : CallLaunchRemove(index)
    \/ \E index \in ListIndexes : CallLandingRemove(index)
    \/ \E index \in ListIndexes, launch \in LaunchValues :
          CallLaunchChange(index, launch)
    \/ \E index \in ListIndexes, landing \in LandingValues :
          CallLandingChange(index, landing)
    \/ CallAddThenRemove

ListSpec == ListInit /\ [][ListNext]_vars

---------------------------------------------------------------------------
(* The launch and landing lists: the claims *)

\* list `after` is list `before` with one more element at the end
IsAppendOf(after, before) ==
    /\ Len(after) = Len(before) + 1
    /\ \A k \in 1 .. Len(before) : after[k] = before[k]

\* list `after` is list `before` without the element at position i
IsRemovalOf(after, before, i) ==
    /\ Len(after) = Len(before) - 1
    /\ \A k \in 1 .. (i - 1) : after[k] = before[k]
    /\ \A k \in (i + 1) .. Len(before) : after[k - 1] = before[k]

\* C11: addLaunch (and addLanding) appends exactly one new element at the end:
\* the length grows by one and every element that was there keeps its index
\* and its value; the other list is not touched.
C11_AddAppendsAtEnd ==
    /\ fn = "addLaunch" =>
          IsAppendOf(ret.launches, launches) /\ ret.landings = landings
    /\ fn = "addLanding" =>
          IsAppendOf(ret.landings, landings) /\ ret.launches = launches

\* a launch added to a list of two: the new launch is the third
C11_Witness ==
    /\ fn = "addLaunch" /\ Len(launches) = 2
    /\ ret.launches[3].direction_degrees_stop = 360
    /\ ret.launches[1] = launches[1] /\ ret.launches[2] = launches[2]

\* C12 (as claimed): removing at a position that is not valid (negative, or
\* at or past the length, so any position of an empty list) fails with
\* IndexOutOfRange and leaves the list unchanged.
C12_RemoveInvalidIndexFails ==
    /\ (fn = "handleLaunchRemove" /\ inA \notin 1 .. Len(launches)) =>
          ret.error = "IndexOutOfRange" /\ ret.launches = launches
    /\ (fn = "handleLandingRemove" /\ inA \notin 1 .. Len(landings)) =>
          ret.error = "IndexOutOfRange" /\ ret.landings = landings

\* C13: removing at a valid position i removes exactly that element: the
\* length shrinks by one, the elements before i keep their index and those
\* after i move down by one with their values unchanged.
C13_RemoveShiftsDown ==
    /\ (fn = "handleLaunchRemove" /\ inA \in 1 .. Len(launches)) =>
          IsRemovalOf(ret.launches, launches, inA) /\ ret.landings = landings
    /\ (fn = "handleLandingRemove" /\ inA \in 1 .. Len(landings)) =>
          IsRemovalOf(ret.landings, landings, inA) /\ ret.launches = launches

\* the first of two equal launches removed: the second moves to the front
C13_Witness ==
    /\ fn = "handleLaunchRemove" /\ inA = 1
    /\ Len(launches) = 2 /\ launches[1] = launches[2]
    /\ ret.launches = <<launches[2]>>

\* C14 (as claimed): an update at a position that is not valid fails with
\* IndexOutOfRange and leaves the list unchanged; it never lengthens the
\* list or creates empty slots.
C14_UpdateInvalidIndexFails ==
    /\ (fn = "handleLaunchChange" /\ inA \notin 1 .. Len(launches)) =>
          ret.error = "IndexOutOfRange" /\ ret.launches = launches
    /\ (fn = "handleLandingChange" /\ inA \notin 1 .. Len(landings)) =>
          ret.error = "IndexOutOfRange" /\ ret.landings = landings

\* C15: addLaunch followed by a removal at the appended (last) position gives
\* back the launches and the landings of before the add.
C15_AddThenRemoveRestores ==
    fn = "addLaunch;handleLaunchRemove" =>
        ret.launches = launches /\ ret.landings = landings

\* a launch added to a non-empty list and removed again
C15_Witness ==
    /\ fn = "addLaunch;handleLaunchRemove"
    /\ Len(launches) = 2 /\ inA = 3
    /\ ret.launches = launches

---------------------------------------------------------------------------
(* components/SitesMap: the zoomed-in markers and their coincidence flags  *)
(* Coordinates of this part are in units of 0.00001 degree.                *)

\* `tolerance = 0.0001` of coordsMatch, in units of 0.00001 degree
Tolerance == 10

\* launches and landings per site on the map
MaxPerSite == 1

\* <<latitude, longitude>> of the launches and landings on the map:
\* (47.0, 10.0), (47.00005, 10.00005), (47.0002, 10.0), a point on the
\* equator, one on the prime meridian and one 0.00005 degree from it
MapCoords ==
    { <<4700000, 1000000>>, <<4700005, 1000005>>, <<4700020, 1000000>>,
      <<0, 1000000>>, <<4700000, 0>>, <<4700005, 5>> }

SiteNames == <<"A", "B">>

LaunchAt(c) ==
    [location |-> [latitude |-> c[1], longitude |-> c[2], name |-> ""],
     direction_degrees_start |-> 0,
     direction_degrees_stop |-> 360,
     elevation |-> 0,
     site_type |-> "Hang"]

LandingAt(c) ==
    [location |-> [latitude |-> c[1], longitude |-> c[2], name |-> ""],
     elevation |-> 0]

Abs(x) == IF x < 0 THEN -x ELSE x

\* a number used as a condition: 0 is falsy
Truthy(x) == x # 0

coordsMatch(a, b, tolerance) ==
    Abs(a.lat - b.lat) < tolerance /\ Abs(a.lng - b.lng) < tolerance

\* sites.flatMap(site => site.launches.map(...)) and the same for landings:
\* `pick` is "launches" or "landings"
FlatMapSites(ss, pick) ==
    LET flat[k \in 0 .. Len(ss)] ==
            IF k = 0 THEN << >>
            ELSE flat[k - 1] \o
                 [j \in 1 .. Len(ss[k][pick]) |->
                     [location |-> [lat |-> ss[k][pick][j].location.latitude,
                                    lng |-> ss[k][pick][j].location.longitude],
                      elevation |-> ss[k][pick][j].elevation,
                      siteName |-> ss[k].name]]
    IN  flat[Len(ss)]

\* .filter((loc) => loc.location.lat && loc.location.lng)
HasCoords(loc) == Truthy(loc.location.lat) /\ Truthy(loc.location.lng)

MapLaunches(ss) == SelectSeq(FlatMapSites(ss, "launches"), HasCoords)

MapLandings(ss) == SelectSeq(FlatMapSites(ss, "landings"), HasCoords)

\* number of elements of seq that match loc
Matching(seq, loc) ==
    Cardinality({k \in 1 .. Len(seq) :
                    coordsMatch(seq[k].location, loc.location, Tolerance)})

\* a render of SitesMap for the site list ss
SitesMapRender(ss) ==
    [launchesWithOverlap |->
        [k \in 1 .. Len(MapLaunches(ss)) |->
            [location |-> MapLaunches(ss)[k].location,
             elevation |-> MapLaunches(ss)[k].elevation,
             siteName |-> MapLaunches(ss)[k].siteName,
             hasLandingAtSameLocation |->
                 Matching(MapLandings(ss), MapLaunches(ss)[k]) > 0]],
     landingsWithOverlap |->
        [k \in 1 .. Len(MapLandings(ss)) |->
            [location |-> MapLandings(ss)[k].location,
             elevation |-> MapLandings(ss)[k].elevation,
             siteName |-> MapLandings(ss)[k].siteName,
             hasLaunchAtSameLocation |->
                 Matching(MapLaunches(ss), MapLandings(ss)[k]) > 0]]]

\* The site list of the example of the specification: site A with a launch
\* at (47.0, 10.0) and a landing at (47.00005, 10.00005), site B empty.
ExampleSites ==
    << [name |-> SiteNames[1],
        launches |-> << LaunchAt(<<4700000, 1000000>>) >>,
        landings |-> << LandingAt(<<4700005, 1000005>>) >>],
       [name |-> SiteNames[2], launches |-> << >>, landings |-> << >>] >>

MapInit ==
    /\ fn = "none" /\ inA = 0 /\ inB = 0 /\ ret = 0
    /\ launches = << >>
    /\ landings = << >>
    /\ isCollapsed = << >>
    /\ dragMode = << >>
    /\ picker = << >>
    /\ pending = {}
    /\ lastChange = NoChange
    /\ otherAtDown = << >>
    /\ sites = ExampleSites
    /\ selectedSite = 0
    /\ shown = SitesMapRender(ExampleSites)
    /\ refs = NoRefs
    /\ HooksUnused

mapFrame == <<angleVars, editorVars, landings, selectedSite, refs, hookVars>>

\* useSites stores a refreshed list (setSites(data)) and App renders
\* SitesMap with it
StoreSites(newSites) ==
    /\ sites' = newSites
    /\ shown' = SitesMapRender(newSites)
    /\ UNCHANGED mapFrame

\* the refreshed list has a launch of site s moved to coordinate c
LaunchMoved(s, i, c) ==
    /\ s \in 1 .. Len(sites)
    /\ i \in 1 .. Len(sites[s].launches)
    /\ StoreSites([sites EXCEPT ![s].launches[i].location.latitude = c[1],
                                ![s].launches[i].location.longitude = c[2]])

LandingMoved(s, i, c) ==
    /\ s \in 1 .. Len(sites)
    /\ i \in 1 .. Len(sites[s].landings)
    /\ StoreSites([sites EXCEPT ![s].landings[i].location.latitude = c[1],
                                ![s].landings[i].location.longitude = c[2]])

\* the refreshed list has one more launch in site s
LaunchAdded(s, c) ==
    /\ s \in 1 .. Len(sites)
    /\ Len(sites[s].launches) < MaxPerSite
    /\ StoreSites([sites EXCEPT ![s].launches = Append(@, LaunchAt(c))])

LandingAdded(s, c) ==
    /\ s \in 1 .. Len(sites)
    /\ Len(sites[s].landings) < MaxPerSite
    /\ StoreSites([sites EXCEPT ![s].landings = Append(@, LandingAt(c))])

\* the refreshed list lacks launch i of site s
LaunchRemoved(s, i) ==
    /\ s \in 1 .. Len(sites)
    /\ i \in 1 .. Len(sites[s].launches)
    /\ StoreSites([sites EXCEPT ![s].launches = handleLaunchRemove(@, i)])

LandingRemoved(s, i) ==
    /\ s \in 1 .. Len(sites)
    /\ i \in 1 .. Len(sites[s].landings)
    /\ StoreSites([sites EXCEPT ![s].landings = handleLandingRemove(@, i)])

MapNext ==
    \/ \E s \in 1 .. Len(SiteNames), i \in 1 .. MaxPerSite, c \in MapCoords :
          LaunchMoved(s, i, c)
    \/ \E s \in 1 .. Len(SiteNames), i \in 1 .. MaxPerSite, c \in MapCoords :
          LandingMoved(s, i, c)
    \/ \E s \in 1 .. Len(SiteNames), c \in MapCoords : LaunchAdded(s, c)
    \/ \E s \in 1 .. Len(SiteNames), c \in MapCoords : LandingAdded(s, c)
    \/ \E s \in 1 .. Len(SiteNames), i \in 1 .. MaxPerSite : LaunchRemoved(s, i)
    \/ \E s \in 1 .. Len(SiteNames), i \in 1 .. MaxPerSite : LandingRemoved(s, i)

MapSpec == MapInit /\ [][MapNext]_vars

---------------------------------------------------------------------------
(* The coincidence flags of the map: the claims *)

\* both deltas, each on its own, are within the tolerance
Near(lat1, lng1, lat2, lng2, tolerance) ==
    /\ Abs(lat1 - lat2) < tolerance
    /\ Abs(lng1 - lng2) < tolerance

\* some element of list `pick` ("launches" or "landings") of site s is near
\* the map location loc
SiteHasNear(s, pick, loc) ==
    \E j \in 1 .. Len(s[pick]) :
        Near(s[pick][j].location.latitude, s[pick][j].location.longitude,
             loc.lat, loc.lng, Tolerance)

\* the sites an entry of the map belongs to, by name
OwnersOf(entry) == { k \in 1 .. Len(sites) : sites[k].name = entry.siteName }

\* C16 (as claimed): a launch is flagged hasLandingAtSameLocation exactly when
\* some landing of the same site has its latitude delta and its longitude
\* delta to the launch within the tolerance, each delta on its own; landings
\* are flagged by the symmetric rule.  The example: (47.0, 10.0) and
\* (47.00005, 10.00005) coincide at tolerance 0.0001 and not at 0.00001.
C16_FlagIffSameSiteNear ==
    /\ \A k \in 1 .. Len(shown.launchesWithOverlap) :
          LET e == shown.launchesWithOverlap[k]
          IN  e.hasLandingAtSameLocation <=>
                  \E s \in OwnersOf(e) : SiteHasNear(sites[s], "landings", e.location)
    /\ \A k \in 1 .. Len(shown.landingsWithOverlap) :
          LET e == shown.landingsWithOverlap[k]
          IN  e.hasLaunchAtSameLocation <=>
                  \E s \in OwnersOf(e) : SiteHasNear(sites[s], "launches", e.location)
    /\ coordsMatch([lat |-> 4700000, lng |-> 1000000],
                   [lat |-> 4700005, lng |-> 1000005], Tolerance)
    /\ ~coordsMatch([lat |-> 4700000, lng |-> 1000000],
                    [lat |-> 4700005, lng |-> 1000005], 1)

\* C17 (as claimed): the flagged launch list has exactly one entry per launch
\* of the sites, in order, whatever the coordinates (latitude 0 and longitude
\* 0 included), and likewise the flagged landing list: nothing is dropped
\* before flagging.
C17_OneEntryPerLaunchAndLanding ==
    /\ Len(shown.launchesWithOverlap) = Len(FlatMapSites(sites, "launches"))
    /\ \A k \in 1 .. Len(shown.launchesWithOverlap) :
          /\ k <= Len(FlatMapSites(sites, "launches"))
          /\ shown.launchesWithOverlap[k].location =
                 FlatMapSites(sites, "launches")[k].location
    /\ Len(shown.landingsWithOverlap) = Len(FlatMapSites(sites, "landings"))
    /\ \A k \in 1 .. Len(shown.landingsWithOverlap) :
          /\ k <= Len(FlatMapSites(sites, "landings"))
          /\ shown.landingsWithOverlap[k].location =
                 FlatMapSites(sites, "landings")[k].location

\* C18 (as claimed): after any sequence of changes to the site list (a launch
\* or landing moved, added or removed) every flag on the map equals the
\* coincidence of its launch or landing with the landings or launches at
\* their current coordinates, so a flag disappears as soon as either side
\* moves out of tolerance and is there as long as they are within it.
C18_FlagsFollowCurrentCoordinates ==
    /\ \A k \in 1 .. Len(shown.launchesWithOverlap) :
          LET e == shown.launchesWithOverlap[k]
          IN  e.hasLandingAtSameLocation <=>
                  \E s \in 1 .. Len(sites) :
                      SiteHasNear(sites[s], "landings", e.location)
    /\ \A k \in 1 .. Len(shown.landingsWithOverlap) :
          LET e == shown.landingsWithOverlap[k]
          IN  e.hasLaunchAtSameLocation <=>
                  \E s \in 1 .. Len(sites) :
                      SiteHasNear(sites[s], "launches", e.location)

---------------------------------------------------------------------------
(* App and SiteEditor: which arrays and objects an edit writes to          *)
(* JavaScript arrays and objects are references: useState(site.launches)   *)
(* makes the editor state the very array of the ApiSite in App's list, and *)
(* a write to an array or object that is the site's changes the site.      *)

\* `const updated = launches`: the same array, no copy
SpreadArray_SameArray(tag) == tag

\* [...arr], [...arr, x] and arr.filter(f): the result is a new array
SpreadArray(tag) == Fresh

\* { ...obj, field: value }: the result is a new object
SpreadObject(tag) == Fresh

\* the editor state named by `pick` ("launches" or "landings")
Cur(pick) == IF pick = "launches" THEN launches ELSE landings

\* site after `newValue` was written into the object `tag` of list `pick`
WriteElem(site, pick, tag, newValue) ==
    IF IsShared(tag) THEN [site EXCEPT ![pick][tag.site] = newValue] ELSE site

\* site after `newLocation` was written into the location object `tag`
WriteLocation(site, pick, tag, newLocation) ==
    IF IsShared(tag) THEN [site EXCEPT ![pick][tag.site].location = newLocation]
    ELSE site

\* site after the array `tag` of list `pick` got the contents newList
WriteArray(site, pick, tag, newList) ==
    IF IsShared(tag) THEN [site EXCEPT ![pick] = newList] ELSE site

\* values typed or selected in the LaunchEditor inputs
FieldInputs == { <<"name", "Rampe">>, <<"site_type", "Winch">> }

\* the pointer offset of the drags (east of the centre) and the coordinate
\* of the map clicks: which objects an edit writes to does not depend on the
\* values written
SharePointers == { <<1, 0>> }

ShareClicks == { <<48, 11>> }

\* the handle that is dragged
ShareModes == { "start" }

\* the site list App holds when the editor is opened
ShareSites ==
    { << [name |-> "A",
          launches |-> <<EquatorLaunch, SampleLaunch>>,
          landings |-> <<SampleLanding>>] >> }

ShareInit ==
    /\ fn = "none" /\ inA = 0 /\ inB = 0 /\ ret = 0
    /\ launches = << >>
    /\ landings = << >>
    /\ isCollapsed = << >>
    /\ dragMode = << >>
    /\ picker = << >>
    /\ pending = {}
    /\ lastChange = NoChange
    /\ otherAtDown = << >>
    /\ sites \in ShareSites
    /\ selectedSite = 0
    /\ shown = NothingShown
    /\ refs = NoRefs
    /\ HooksUnused

shareFrame == <<inA, inB, isCollapsed, dragMode, picker, pending, lastChange,
                otherAtDown, shown, hookVars>>

\* App.handleSiteClick(site), then SiteEditor mounts: useState(site.launches)
\* and useState(site.landings).  ret keeps the site list as it is now.
OpenEditor(k) ==
    /\ selectedSite = 0
    /\ k \in 1 .. Len(sites)
    /\ selectedSite' = k
    /\ launches' = sites[k].launches
    /\ landings' = sites[k].landings
    /\ refs' = [arr  |-> [launches |-> SiteObject(1), landings |-> SiteObject(1)],
                elem |-> [launches |-> [j \in 1 .. Len(sites[k].launches) |->
                                           [obj |-> SiteObject(j), loc |-> SiteObject(j)]],
                          landings |-> [j \in 1 .. Len(sites[k].landings) |->
                                           [obj |-> SiteObject(j), loc |-> SiteObject(j)]]]]
    /\ fn' = "open"
    /\ ret' = sites
    /\ UNCHANGED <<sites, shareFrame>>

\* SiteEditor Cancel: onCancel = () => setSelectedSite(null); the editor
\* unmounts
CancelEditor ==
    /\ selectedSite # 0
    /\ selectedSite' = 0
    /\ launches' = << >>
    /\ landings' = << >>
    /\ refs' = NoRefs
    /\ fn' = "cancel"
    /\ UNCHANGED <<ret, sites, shareFrame>>

\* setLaunches / setLandings with an array whose identity is arrTag, after
\* the writes of the handler have changed the site into newSite
Commit(pick, newList, arrTag, newElems, newSite, name) ==
    /\ IF pick = "launches"
       THEN launches' = newList /\ UNCHANGED landings
       ELSE landings' = newList /\ UNCHANGED launches
    /\ refs' = [refs EXCEPT !.arr[pick] = arrTag, !.elem[pick] = newElems]
    /\ sites' = [sites EXCEPT ![selectedSite] = newSite]
    /\ fn' = name
    /\ UNCHANGED <<ret, selectedSite, shareFrame>>

\* addLaunch / addLanding: set...([...list, { new }])
EditAdd(pick) ==
    /\ selectedSite # 0
    /\ Len(Cur(pick)) < MaxLen
    /\ LET arrTag  == SpreadArray(refs.arr[pick])
           newList == IF pick = "launches" THEN addLaunch(launches)
                      ELSE addLanding(landings)
       IN  Commit(pick, newList, arrTag,
                  Append(refs.elem[pick], [obj |-> Fresh, loc |-> Fresh]),
                  WriteArray(sites[selectedSite], pick, arrTag, newList), "add")

\* handleLaunchRemove / handleLandingRemove: set...(list.filter(...))
EditRemove(pick, i) ==
    /\ selectedSite # 0
    /\ i \in 1 .. Len(Cur(pick))
    /\ LET arrTag  == SpreadArray(refs.arr[pick])
           newList == IF pick = "launches" THEN handleLaunchRemove(launches, i)
                      ELSE handleLandingRemove(landings, i)
       IN  Commit(pick, newList, arrTag,
                  handleLaunchRemove(refs.elem[pick], i),
                  WriteArray(sites[selectedSite], pick, arrTag, newList), "remove")

\* A pointer event of a drag on the compass of launch i: handleMouseMove,
\* LaunchEditor.handleDirectionChange ({ ...launch, start, stop }), then
\* handleLaunchChange ([...launches]; updated[index] = launch).
EditDrag(i, mode, p) ==
    /\ selectedSite # 0
    /\ i \in 1 .. Len(launches)
    /\ LET calls   == handleMouseMove(launches[i].direction_degrees_start,
                                      launches[i].direction_degrees_stop, mode, p)
           newList == handleDirectionChange(launches, i, calls[1][1], calls[1][2])
           objTag  == SpreadObject(refs.elem.launches[i].obj)
           arrTag  == SpreadArray(refs.arr.launches)
           site1   == WriteElem(sites[selectedSite], "launches", objTag, newList[i])
       IN  Commit("launches", newList, arrTag,
                  [refs.elem.launches EXCEPT ![i].obj = objTag],
                  WriteArray(site1, "launches", arrTag, newList), "drag")

\* The elevation for a click at c has arrived: LocationPicker calls onChange
\* with { ...location, latitude, longitude }, the editor's
\* handleLocationChange builds { ...launch, location, elevation } and the
\* list handler stores [...list] with that element.
EditLocation(pick, i, c) ==
    /\ selectedSite # 0
    /\ i \in 1 .. Len(Cur(pick))
    /\ LET location == [Cur(pick)[i].location EXCEPT
                            !.latitude = c[1], !.longitude = c[2]]
           elevation == ElevationService(c[1], c[2])
           newList == IF pick = "launches"
                      THEN handleLocationChange(launches, i, location, elevation)
                      ELSE handleLandingLocationChange(landings, i, location, elevation)
           locTag  == SpreadObject(refs.elem[pick][i].loc)
           objTag  == SpreadObject(refs.elem[pick][i].obj)
           arrTag  == SpreadArray(refs.arr[pick])
           site1   == WriteLocation(sites[selectedSite], pick, locTag, location)
           site2   == WriteElem(site1, pick, objTag, newList[i])
       IN  Commit(pick, newList, arrTag,
                  [refs.elem[pick] EXCEPT ![i] = [obj |-> objTag, loc |-> locTag]],
                  WriteArray(site2, pick, arrTag, newList), "location")

\* LaunchEditor.handleChange(field, value): updated = { ...launch }, a write
\* to updated (for "name" of a new location { ...updated.location, name }),
\* then onChange(index, updated)
EditField(i, field, value) ==
    /\ selectedSite # 0
    /\ i \in 1 .. Len(launches)
    /\ LET updated == handleChange(launches[i], field, value)
           newList == handleLaunchChange(launches, i, updated)
           objTag  == SpreadObject(refs.elem.launches[i].obj)
           locTag  == IF field = "name"
                      THEN SpreadObject(refs.elem.launches[i].loc)
                      ELSE refs.elem.launches[i].loc
           arrTag  == SpreadArray(refs.arr.launches)
           site1   == WriteLocation(sites[selectedSite], "launches", locTag,
                                    updated.location)
           site2   == WriteElem(site1, "launches", objTag, updated)
       IN  Commit("launches", newList, arrTag,
                  [refs.elem.launches EXCEPT ![i] = [obj |-> objTag, loc |-> locTag]],
                  WriteArray(site2, "launches", arrTag, newList), "field")

ShareNext ==
    \/ \E k \in 1 .. 1 : OpenEditor(k)
    \/ CancelEditor
    \/ \E pick \in {"launches", "landings"} : EditAdd(pick)
    \/ \E pick \in {"launches", "landings"}, i \in 1 .. MaxLen : EditRemove(pick, i)
    \/ \E i \in 1 .. MaxLen, mode \in ShareModes, p \in SharePointers :
          EditDrag(i, mode, p)
    \/ \E pick \in {"launches", "landings"}, i \in 1 .. MaxLen, c \in ShareClicks :
          EditLocation(pick, i, c)
    \/ \E i \in 1 .. MaxLen, input \in FieldInputs : EditField(i, input[1], input[2])

ShareSpec == ShareInit /\ [][ShareNext]_vars

---------------------------------------------------------------------------
(* Sharing between the editor and the site list: the claim *)

\* C19: editing never mutates shared values in place: every add, remove,
\* update, drag or location change builds new arrays and objects, so the
\* ApiSite passed to the editor and the site list of App are what they were
\* when the editor opened, during any sequence of edits and after Cancel.
C19_SitesUntouchedByEdits ==
    /\ selectedSite # 0 => sites = ret
    /\ fn = "cancel" => sites = ret

\* the editor is open on a site with two launches: the second was edited and
\* the landing was moved, while the first launch is still the very object of
\* the site, in an array that is the editor's own
C19_Witness ==
    /\ selectedSite # 0
    /\ Len(launches) = 2
    /\ launches[1] = sites[selectedSite].launches[1]
    /\ launches[2] # sites[selectedSite].launches[2]
    /\ IsShared(refs.elem.launches[1].obj)
    /\ ~IsShared(refs.arr.launches)
    /\ Len(landings) = 1
    /\ landings # sites[selectedSite].landings
    /\ sites = ret

---------------------------------------------------------------------------
(* Several elevation requests of one LocationPicker in flight: the launch  *)
(* editor of one launch, its map clicked while earlier requests are still  *)
(* pending, the responses arriving in any order.                           *)

\* elevation requests of the picker in flight at the same time
MaxRequests == 2

RaceInit ==
    /\ fn = "none" /\ inA = 0 /\ inB = 0 /\ ret = 0
    /\ launches = <<SampleLaunch>>
    /\ isCollapsed = <<TRUE>>
    /\ dragMode = <<NoDrag>>
    /\ picker = <<Unmounted>>
    /\ pending = {}
    /\ lastChange = NoChange
    /\ otherAtDown = <<0>>
    /\ AppUnused

\* handleMapClick / handleMarkerDrag, also while a request is pending
RaceClick(c) == MapClickWithin(1, c, MaxRequests)

RaceNext ==
    \/ ToggleCollapsed(1)
    \/ \E c \in ClickCoords : RaceClick(c)
    \/ \E r \in pending : FetchOk(r)

RaceSpec == RaceInit /\ [][RaceNext]_vars

\* C22 (as claimed): when several map clicks are made in a LocationPicker and
\* their elevation requests complete in any order, once all requests have
\* settled the launch's stored coordinate is the last clicked coordinate
\* (the picker's pickLat, pickLng) and its stored elevation is the elevation
\* fetched for that coordinate.  Stated for the response that settles the
\* last request of a picker that stayed mounted since the click.
C22_LastClickWins ==
    [][\A r \in pending :
          (FetchOk(r) /\ r.alive /\ pending' = {}) =>
              /\ launches'[r.idx].location.latitude = picker[r.idx].pickLat
              /\ launches'[r.idx].location.longitude = picker[r.idx].pickLng
              /\ launches'[r.idx].elevation =
                     ElevationService(picker[r.idx].pickLat, picker[r.idx].pickLng)]_vars

---------------------------------------------------------------------------
(* The LocationPickers of a site with two launches: expanding, removing,   *)
(* map clicks and their responses, without the compass.                    *)

\* launch editors rendered
MaxEditors == 2

PickerInit ==
    /\ fn = "none" /\ inA = 0 /\ inB = 0 /\ ret = 0
    /\ launches = <<EquatorLaunch, SampleLaunch>>
    /\ isCollapsed = [k \in 1 .. Len(launches) |-> TRUE]
    /\ dragMode = [k \in 1 .. Len(launches) |-> NoDrag]
    /\ picker = [k \in 1 .. Len(launches) |-> Unmounted]
    /\ pending = {}
    /\ lastChange = NoChange
    /\ otherAtDown = [k \in 1 .. Len(launches) |-> 0]
    /\ AppUnused

PickerNext ==
    \/ \E i \in 1 .. MaxEditors : ToggleCollapsed(i)
    \/ \E i \in 1 .. MaxEditors : RemoveLaunch(i)
    \/ \E i \in 1 .. MaxEditors, c \in ClickCoords : MapClick(i, c)
    \/ \E r \in pending : FetchOk(r)
    \/ \E r \in pending : FetchFail(r)

PickerSpec == PickerInit /\ [][PickerNext]_vars

\* C23 (as claimed): in every state where no elevation request is pending,
\* each LocationPicker shown in the site editor displays (pickLat, pickLng)
\* equal to the coordinate of the launch it is rendered for, also after a
\* failed elevation request and after an earlier launch has been removed.
C23_PickerShowsItsLaunch ==
    pending = {} =>
        \A i \in 1 .. Len(launches) :
            ~isCollapsed[i] =>
                /\ picker[i].pickLat = launches[i].location.latitude
                /\ picker[i].pickLng = launches[i].location.longitude

---------------------------------------------------------------------------
(* App with useSites and useUpdateSite: the initial load, the site type    *)
(* filter, opening the editor from the map, editing a launch, saving and   *)
(* the refresh that follows.  The decision graph is loaded (App renders    *)
(* the main screen).  The backend is not part of the sources: it is taken  *)
(* to hold one site list, to answer GET /api/sites with it, and to replace *)
(* the stored site of the same name by the body of an accepted PUT.        *)

\* saves the backend accepts in a run
MaxSaves == 2

\* what the backend holds when the page is opened
ServerSites ==
    << [name |-> "A", launches |-> <<EquatorLaunch>>, landings |-> << >>],
       [name |-> "B", launches |-> <<SampleLaunch>>, landings |-> <<SampleLanding>>] >>

\* the options of the site type <select> of LaunchEditor
TypeInputs == { "Hang", "Winch" }

\* how a PUT /api/sites ends for the caller: response.ok, a response that is
\* not ok, or fetch rejects
Outcomes == { "ok", "rejected", "error" }

\* no response yet
NoAnswer == [served |-> FALSE, ok |-> FALSE, sites |-> << >>, rev |-> 0]

\* a fetch call in flight: `kind` is "load" or "refresh" (GET /api/sites of
\* the mount effect and of refresh) or "put"; `body` holds the site of a
\* PUT; issuedAt is history, the number of saves the backend had accepted
\* when the call was made
Call(kind, body) ==
    [kind |-> kind, body |-> body, issuedAt |-> server.rev, answer |-> NoAnswer]

Calls(kind) == { r \in net : r.kind = kind }

\* the stored list after the backend accepted `site`
Upsert(stored, site) ==
    [k \in 1 .. Len(stored) |->
        IF stored[k].name = site.name THEN site ELSE stored[k]]

\* a string used as a condition: "" is falsy
TruthyString(x) == x # ""

\* App.filteredSites: sites.filter(site => !filters.siteType ||
\*   site.launches.some(launch => launch.site_type === filters.siteType))
filteredSites(ss, f) ==
    SelectSeq(ss, LAMBDA site :
        IF TruthyString(f.siteType)
        THEN \E j \in 1 .. Len(site.launches) :
                site.launches[j].site_type = f.siteType
        ELSE TRUE)

\* FilterPanel.siteTypes: the distinct truthy site_type values of the
\* launches of `sites` (the options after "All")
siteTypes(ss) ==
    { t \in UNION { { ss[k].launches[j].site_type :
                         j \in 1 .. Len(ss[k].launches) } :
                     k \in 1 .. Len(ss) } : TruthyString(t) }

\* updateSite that takes every response for a success
updateSite_AnyResponse(outcome) == outcome # "error"

\* useUpdateSite.updateSite: the value its promise resolves to
updateSite(outcome) == outcome = "ok"

AppInit ==
    /\ fn = "none" /\ inA = 0 /\ inB = 0 /\ ret = 0
    /\ launches = << >>
    /\ landings = << >>
    /\ isCollapsed = << >>
    /\ dragMode = << >>
    /\ picker = << >>
    /\ pending = {}
    /\ lastChange = NoChange
    /\ otherAtDown = << >>
    /\ sites = << >>
    /\ selectedSite = 0
    /\ shown = NothingShown
    /\ refs = NoRefs
    /\ screen = "main"
    /\ filters = NoFilter
    /\ graph = 0
    /\ flags = [NoFlags EXCEPT !.sitesLoading = TRUE]
    /\ server = [sites |-> ServerSites, rev |-> 0, graph |-> 0]
    /\ net = { [kind |-> "load", body |-> << >>, issuedAt |-> 0,
                answer |-> NoAnswer] }
    /\ zoom = InitialZoom
    /\ origin = NoOrigin

appFrame == <<inA, inB, ret, isCollapsed, dragMode, picker, pending,
              lastChange, otherAtDown, shown, screen, graph, zoom>>

\* the backend answers a GET /api/sites with the list it holds
ServeGet(r) ==
    /\ r \in net
    /\ r.kind \in {"load", "refresh"}
    /\ ~r.answer.served
    /\ net' = (net \ {r}) \cup
                 { [r EXCEPT !.answer = [served |-> TRUE, ok |-> TRUE,
                                         sites |-> server.sites,
                                         rev |-> server.rev]] }
    /\ UNCHANGED <<fn, launches, landings, sites, selectedSite, refs, filters,
                   flags, server, origin, appFrame>>

\* the backend handles a PUT /api/sites: it stores the site, or refuses it
ServePut(r, accept) ==
    /\ r \in net
    /\ r.kind = "put"
    /\ ~r.answer.served
    /\ accept => server.rev < MaxSaves
    /\ server' = IF accept
                 THEN [server EXCEPT !.sites = Upsert(server.sites, r.body[1]),
                                     !.rev = server.rev + 1]
                 ELSE server
    /\ net' = (net \ {r}) \cup
                 { [r EXCEPT !.answer = [served |-> TRUE, ok |-> accept,
                                         sites |-> << >>,
                                         rev |-> server'.rev]] }
    /\ UNCHANGED <<fn, launches, landings, sites, selectedSite, refs, filters,
                   flags, origin, appFrame>>

\* useSites mount effect, data parsed: setSites(data); setLoading(false)
LoadOk(r) ==
    /\ r \in net
    /\ r.kind = "load"
    /\ r.answer.served
    /\ sites' = r.answer.sites
    /\ flags' = [flags EXCEPT !.sitesLoading = FALSE]
    /\ origin' = [origin EXCEPT !.sites = r.issuedAt]
    /\ net' = net \ {r}
    /\ fn' = "setSites"
    /\ UNCHANGED <<launches, landings, selectedSite, refs, filters, server,
                   appFrame>>

\* useSites.refresh, data parsed: setSites(data); setRefreshing(false)
RefreshOk(r) ==
    /\ r \in net
    /\ r.kind = "refresh"
    /\ r.answer.served
    /\ sites' = r.answer.sites
    /\ flags' = [flags EXCEPT !.refreshing = FALSE]
    /\ origin' = [origin EXCEPT !.sites = r.issuedAt]
    /\ net' = net \ {r}
    /\ fn' = "setSites"
    /\ UNCHANGED <<launches, landings, selectedSite, refs, filters, server,
                   appFrame>>

\* fetch rejects or res.json() rejects (the body is no JSON): the chain
\* goes to .catch(console.error) and no state is set
GetFail(r) ==
    /\ r \in net
    /\ r.kind \in {"load", "refresh"}
    /\ net' = net \ {r}
    /\ fn' = "console.error"
    /\ UNCHANGED <<launches, landings, sites, selectedSite, refs, filters,
                   flags, server, origin, appFrame>>

\* FilterPanel <select> onChange: one of the options it renders.  The panel
\* is rendered once the sites are loaded; the editor overlay covers it.
SelectFilter(t) ==
    /\ ~flags.sitesLoading
    /\ selectedSite = 0
    /\ t \in {""} \cup siteTypes(sites)
    /\ filters' = [filters EXCEPT !.siteType = t]
    /\ fn' = "setFilters"
    /\ UNCHANGED <<launches, landings, sites, selectedSite, refs, flags,
                   server, net, origin, appFrame>>

\* a click on a marker of site k of the zoomed-out map: onSiteClick(site).
\* SitesMap gets filteredSites, and renders markers for launches.
ClickSite(k) ==
    /\ ~flags.sitesLoading
    /\ k \in 1 .. Len(sites)
    /\ \E n \in 1 .. Len(filteredSites(sites, filters)) :
          filteredSites(sites, filters)[n] = sites[k]
    /\ Len(sites[k].launches) > 0
    /\ OpenEditor(k)

\* the site type <select> of the first launch editor
SelectType(t) == EditField(1, "site_type", t)

\* SiteEditor Save: handleSave builds the site from the editor state and
\* calls onSave = handleSaveSite, which runs updateSite up to its await:
\* setSaving(true) and the PUT.  The button is not disabled while a save is
\* in flight.
SaveSite ==
    /\ selectedSite # 0
    /\ server.rev + Cardinality(Calls("put")) < MaxSaves
    /\ flags' = [flags EXCEPT !.siteSaving = TRUE]
    /\ net' = net \cup
                 { Call("put", << [name |-> sites[selectedSite].name,
                                   launches |-> launches,
                                   landings |-> landings] >>) }
    /\ fn' = "handleSave"
    /\ UNCHANGED <<launches, landings, sites, selectedSite, refs, filters,
                   server, origin, appFrame>>

\* updateSite after its await and the rest of handleSaveSite.  finally runs
\* setSaving(false).  With success, refresh() runs up to its fetch
\* (setRefreshing(true), the GET) and returns undefined, so `await
\* refresh()` resumes in the same microtask checkpoint, before any response
\* can be delivered, and setSelectedSite(null) unmounts the editor.
SaveSettled(r, outcome) ==
    /\ r \in net
    /\ r.kind = "put"
    /\ \/ outcome = "error"
       \/ r.answer.served /\ outcome = (IF r.answer.ok THEN "ok" ELSE "rejected")
    /\ LET success == updateSite(outcome)
       IN  IF success
           THEN /\ flags' = [flags EXCEPT !.siteSaving = FALSE,
                                          !.refreshing = TRUE]
                /\ net' = (net \ {r}) \cup { Call("refresh", << >>) }
                /\ selectedSite' = 0
                /\ launches' = << >>
                /\ landings' = << >>
                /\ refs' = NoRefs
                /\ origin' = [origin EXCEPT !.put = r.answer.rev]
                /\ fn' = "handleSaveSite:closed"
           ELSE /\ flags' = [flags EXCEPT !.siteSaving = FALSE]
                /\ net' = net \ {r}
                /\ fn' = "handleSaveSite:failed"
                /\ UNCHANGED <<selectedSite, launches, landings, refs, origin>>
    /\ UNCHANGED <<sites, filters, server, appFrame>>

AppNext ==
    \/ \E r \in net : ServeGet(r)
    \/ \E r \in net, accept \in BOOLEAN : ServePut(r, accept)
    \/ \E r \in net : LoadOk(r)
    \/ \E r \in net : RefreshOk(r)
    \/ \E r \in net : GetFail(r)
    \/ \E t \in {""} \cup TypeInputs : SelectFilter(t)
    \/ \E k \in 1 .. Len(ServerSites) : ClickSite(k)
    \/ CancelEditor
    \/ \E t \in TypeInputs : SelectType(t)
    \/ SaveSite
    \/ \E r \in net, outcome \in Outcomes : SaveSettled(r, outcome)

AppSpec == AppInit /\ [][AppNext]_vars

\* C24 (as claimed): after a successful save the editor is closed only once
\* the refreshed site list has been stored: in every state where the editor
\* has just been closed by a successful save, the sites shown on the map
\* come from a GET issued after the backend accepted that PUT.
C24_ClosedAfterRefreshStored ==
    fn = "handleSaveSite:closed" => origin.sites >= origin.put

\* C25: when saving a site fails (a response that is not ok, or a network
\* error) updateSite returns false, no refresh is issued, the site list is
\* unchanged and the editor stays as it is, open with the operator's edits;
\* in all outcomes the saving flag returns to false.
C25_FailedSaveKeepsEditor ==
    [][\A r \in net, outcome \in Outcomes :
          SaveSettled(r, outcome) =>
              /\ ~flags'.siteSaving
              /\ outcome # "ok" =>
                    /\ ~updateSite(outcome)
                    /\ Calls("refresh")' = Calls("refresh")
                    /\ flags'.refreshing = flags.refreshing
                    /\ sites' = sites
                    /\ selectedSite' = selectedSite
                    /\ launches' = launches
                    /\ landings' = landings]_vars

\* a save of an edited site has just failed: the editor is open and holds
\* launches that differ from the ones of the site list
C25_Witness ==
    /\ fn = "handleSaveSite:failed"
    /\ selectedSite # 0
    /\ launches # sites[selectedSite].launches
    /\ ~flags.siteSaving
    /\ Calls("refresh") = {}

\* C26 (as claimed): once the initial GET of the site list settles, whether
\* it succeeds, returns unparsable data or fails, useSites.loading is false;
\* likewise refreshing is false once every refresh has settled.
C26_FlagsClearedWhenSettled ==
    /\ Calls("load") = {} => ~flags.sitesLoading
    /\ Calls("refresh") = {} => ~flags.refreshing

\* C30 (as claimed): after any sequence of filter selections and site
\* saves/refreshes the selected site type is empty (All) or one of the types
\* FilterPanel offers for the current sites, and the map gets exactly the
\* sites with at least one launch of the selected type (all sites when the
\* filter is empty).
C30_FilterIsAnOfferedType ==
    ~flags.sitesLoading =>
        /\ filters.siteType \in {""} \cup siteTypes(sites)
        /\ LET mapSites == filteredSites(sites, filters)
               Wanted(site) ==
                   \/ filters.siteType = ""
                   \/ \E j \in 1 .. Len(site.launches) :
                         site.launches[j].site_type = filters.siteType
           IN  /\ \A n \in 1 .. Len(mapSites) : Wanted(mapSites[n])
               /\ \A k \in 1 .. Len(sites) :
                     Wanted(sites[k]) =>
                         \E n \in 1 .. Len(mapSites) : mapSites[n] = sites[k]

---------------------------------------------------------------------------
(* The decision rule screen: useDecisionGraph with its load and save, the  *)
(* Header buttons, the editor of the graph and the switch between the two  *)
(* screens of App.  A graph is modelled by its revision number.            *)

\* edits of the decision graph in a run
MaxGraphEdits == 2

\* DEFAULT_GRAPH of useDecisionGraph, and the graph the backend holds when
\* the page is opened
DefaultGraph == 0

StoredGraph == 1

\* Header buttons that are never disabled
HeaderDisabled_Never(saving) == FALSE

\* Header: <button onClick={onLoad} disabled={saving}> and the same for Save
HeaderDisabled(saving) == saving

\* App renders the Header: not while useDecisionGraph is loading (App
\* returns "Loading..." alone) and only on the "edit" screen
HeaderShown == ~flags.loading /\ screen = "edit"

GraphInit ==
    /\ fn = "none" /\ inA = 0 /\ inB = 0 /\ ret = 0
    /\ launches = << >>
    /\ landings = << >>
    /\ isCollapsed = << >>
    /\ dragMode = << >>
    /\ picker = << >>
    /\ pending = {}
    /\ lastChange = NoChange
    /\ otherAtDown = << >>
    /\ sites = << >>
    /\ selectedSite = 0
    /\ shown = NothingShown
    /\ refs = NoRefs
    /\ screen = "main"
    /\ filters = NoFilter
    /\ graph = DefaultGraph
    /\ flags = [NoFlags EXCEPT !.loading = TRUE]
    /\ server = [sites |-> << >>, rev |-> 0, graph |-> StoredGraph]
    /\ net = { [kind |-> "graphLoad", body |-> << >>, issuedAt |-> 0,
                answer |-> NoAnswer] }
    /\ zoom = InitialZoom
    /\ origin = NoOrigin

graphFrame == <<inA, inB, ret, editorVars, landings, sites, selectedSite,
                shown, refs, filters, zoom, origin>>

\* "Edit Flyable Decision Rule" button of the main screen
GoEdit ==
    /\ ~flags.loading
    /\ screen = "main"
    /\ screen' = "edit"
    /\ fn' = "setScreen"
    /\ UNCHANGED <<graph, flags, server, net, graphFrame>>

\* Header "Back" button
GoBack ==
    /\ HeaderShown
    /\ screen' = "main"
    /\ fn' = "setScreen"
    /\ UNCHANGED <<graph, flags, server, net, graphFrame>>

\* DecisionGraph onChange = setGraph
EditGraph ==
    /\ HeaderShown
    /\ graph < StoredGraph + MaxGraphEdits
    /\ graph' = graph + 1
    /\ fn' = "setGraph"
    /\ UNCHANGED <<screen, flags, server, net, graphFrame>>

\* Header "Load" button: load up to its await
ClickLoad ==
    /\ HeaderShown
    /\ ~HeaderDisabled(flags.saving)
    /\ flags' = [flags EXCEPT !.loading = TRUE]
    /\ net' = net \cup { Call("graphLoad", << >>) }
    /\ fn' = "load"
    /\ UNCHANGED <<screen, graph, server, graphFrame>>

\* Header "Save" button: save up to its await, with the graph of the render
ClickSave ==
    /\ HeaderShown
    /\ ~HeaderDisabled(flags.saving)
    /\ flags' = [flags EXCEPT !.saving = TRUE]
    /\ net' = net \cup { Call("graphSave", <<graph>>) }
    /\ fn' = "save"
    /\ UNCHANGED <<screen, graph, server, graphFrame>>

\* load after its awaits: with an ok response setGraph(data); with another
\* response or a rejected fetch only the catch; finally setLoading(false)
GraphLoadSettled(r, ok) ==
    /\ r \in net
    /\ r.kind = "graphLoad"
    /\ graph' = IF ok THEN server.graph ELSE graph
    /\ flags' = [flags EXCEPT !.loading = FALSE]
    /\ net' = net \ {r}
    /\ fn' = IF ok THEN "load:stored" ELSE "load:failed"
    /\ UNCHANGED <<screen, server, graphFrame>>

\* save after its await: true for an ok response (the backend has stored the
\* body), false otherwise; finally setSaving(false)
GraphSaveSettled(r, ok) ==
    /\ r \in net
    /\ r.kind = "graphSave"
    /\ server' = IF ok THEN [server EXCEPT !.graph = r.body[1]] ELSE server
    /\ flags' = [flags EXCEPT !.saving = FALSE]
    /\ net' = net \ {r}
    /\ fn' = IF ok THEN "save:true" ELSE "save:false"
    /\ UNCHANGED <<screen, graph, graphFrame>>

GraphNext ==
    \/ GoEdit
    \/ GoBack
    \/ EditGraph
    \/ ClickLoad
    \/ ClickSave
    \/ \E r \in net, ok \in BOOLEAN : GraphLoadSettled(r, ok)
    \/ \E r \in net, ok \in BOOLEAN : GraphSaveSettled(r, ok)

GraphSpec == GraphInit /\ [][GraphNext]_vars

\* C27: at most one decision-graph save is in flight at any time: saving is
\* true exactly while a save is in flight (so it is false again once the
\* save has settled, on success and on failure), and while it is true the
\* Load and Save buttons are disabled, so that no second save and no load
\* is in flight next to it.
C27_OneSaveInFlight ==
    /\ Cardinality(Calls("graphSave")) <= 1
    /\ flags.saving <=> Calls("graphSave") # {}
    /\ flags.saving => Calls("graphLoad") = {}
    /\ (flags.saving /\ HeaderShown) => HeaderDisabled(flags.saving)
    /\ fn \in {"save:true", "save:false"} => ~flags.saving

\* a save of an edited graph is in flight and the header is on the screen
C27_Witness ==
    /\ flags.saving
    /\ HeaderShown
    /\ \E r \in Calls("graphSave") : r.body[1] # server.graph

---------------------------------------------------------------------------
(* The markers of SitesMap and their Edit buttons, for site lists in which *)
(* names repeat.                                                           *)

\* isZoomedIn = zoom >= 11
ZoomedIn == 11

\* zoom levels the map is taken to
ZoomLevels == { InitialZoom, ZoomedIn }

\* names of the sites of the list
MarkerNames == { "A", "B" }

\* <<latitude, longitude>> of the launch and of the landing of a site:
\* (47.0, 10.0) and a point on the prime meridian
MarkerCoords == { <<4700000, 1000000>>, <<4700000, 0>> }

\* the lists of two sites, each with one launch and one landing
MarkerLists ==
    { << [name |-> n1, launches |-> <<LaunchAt(c1)>>, landings |-> <<LandingAt(d1)>>],
         [name |-> n2, launches |-> <<LaunchAt(c2)>>, landings |-> <<LandingAt(d2)>>] >> :
        n1 \in MarkerNames, n2 \in MarkerNames,
        c1 \in MarkerCoords, c2 \in MarkerCoords,
        d1 \in { <<4700000, 1000000>> }, d2 \in MarkerCoords }

\* sites.find((s) => s.name === name): the position of the first site of
\* that name, 0 for undefined
FindByName(ss, name) ==
    IF \E k \in 1 .. Len(ss) : ss[k].name = name
    THEN CHOOSE k \in 1 .. Len(ss) :
             /\ ss[k].name = name
             /\ \A j \in 1 .. (k - 1) : ss[j].name # name
    ELSE 0

MarkerInit ==
    /\ fn = "none" /\ inA = 0 /\ inB = 0 /\ ret = 0
    /\ launches = << >>
    /\ landings = << >>
    /\ isCollapsed = << >>
    /\ dragMode = << >>
    /\ picker = << >>
    /\ pending = {}
    /\ lastChange = NoChange
    /\ otherAtDown = << >>
    /\ sites \in MarkerLists
    /\ selectedSite = 0
    /\ shown = SitesMapRender(sites)
    /\ refs = NoRefs
    /\ HooksUnused

\* MapController zoomend: onZoomChange(map.getZoom())
ZoomEnd(z) ==
    /\ zoom' = z
    /\ UNCHANGED <<angleVars, editorVars, landings, sites, selectedSite, shown,
                   refs, screen, filters, graph, flags, server, net, origin>>

\* "Edit" in the popup of the n-th launch or landing marker of the zoomed-in
\* map: site = sites.find(s => s.name === entry.siteName); if (site)
\* onSiteClick(site)
ClickEdit(pick, n) ==
    /\ zoom >= ZoomedIn
    /\ n \in 1 .. Len(shown[pick])
    /\ FindByName(sites, shown[pick][n].siteName) # 0
    /\ OpenEditor(FindByName(sites, shown[pick][n].siteName))

\* "Edit" in the popup of a marker of site k of the zoomed-out map:
\* onSiteClick(site)
ClickSiteMarker(k) ==
    /\ zoom < ZoomedIn
    /\ k \in 1 .. Len(sites)
    /\ Len(sites[k].launches) > 0
    /\ OpenEditor(k)

MarkerNext ==
    \/ \E z \in ZoomLevels : ZoomEnd(z)
    \/ \E n \in 1 .. 2 * MaxPerSite :
          ClickEdit("launchesWithOverlap", n)
    \/ \E n \in 1 .. 2 * MaxPerSite :
          ClickEdit("landingsWithOverlap", n)
    \/ \E k \in 1 .. 2 : ClickSiteMarker(k)
    \/ CancelEditor

MarkerSpec == MarkerInit /\ [][MarkerNext]_vars

\* the positions in ss of the sites that own the n-th marker of the list
\* `pick` ("launches" or "landings") of a render of ss: the markers are the
\* launches (landings) of the sites in order, without those SitesMap drops
OwnerOfMarker(ss, pick, n) ==
    LET owners[k \in 0 .. Len(ss)] ==
            IF k = 0 THEN << >>
            ELSE owners[k - 1] \o
                 [j \in 1 .. Len(SelectSeq(FlatMapSites(<<ss[k]>>, pick), HasCoords))
                     |-> k]
    IN  owners[Len(ss)][n]

\* C29 (as claimed): clicking Edit on a launch or landing marker of the
\* zoomed-in map opens the editor for the site that owns that launch or
\* landing, for every list of sites, also when two sites have the same name.
C29_EditOpensOwner ==
    [][\A n \in 1 .. 2 * MaxPerSite :
          /\ ClickEdit("launchesWithOverlap", n) =>
                selectedSite' = OwnerOfMarker(sites, "launches", n)
          /\ ClickEdit("landingsWithOverlap", n) =>
                selectedSite' = OwnerOfMarker(sites, "landings", n)]_vars

=============================================================================
